---- MODULE Spec2Model ----
(***************************************************************************)
(* Model of ANM_Set_Layer_Pivots_At_Center_Of_Drawings.js: a shelf script  *)
(* that sets the layer pivot of every selected drawing at the centre of    *)
(* the drawing's artwork.  The scene graph and the host attributes are the *)
(* state; one run of the script is stepped through its code positions.     *)
(*                                                                         *)
(* Numbers.  The script divides the box coordinates by 1875 and halves the *)
(* sums; to stay in the integers an OGL coordinate c is held as the        *)
(* integer c * TicksPerUnit, TicksPerUnit = 2 * 1875.  A field coordinate  *)
(* (the unit of the pivot attributes) is held on the same grid; the host's *)
(* scene.fromOGLX/Y multiply by the scene's field factor and toOGLX/Y      *)
(* divide by it.                                                           *)
(***************************************************************************)
EXTENDS Integers, Sequences, FiniteSets, TLC

\* ---------------------------------------------------------------- bounds
MaxSel == 2        \* longest selection drawn in the tree scenes
MaxSub == 2        \* most sub-nodes of group G1 in the tree scenes
MaxCoord == 1      \* largest extent of a box of the box scenes
MaxPivot == 1      \* pivot coordinates of the pivot scenes range over 0..MaxPivot
FieldX == 3        \* scene setting: field units per OGL unit, X
FieldY == 2        \* scene setting: field units per OGL unit, Y

\* ------------------------------------------------------ program constants
BoxScale == 1875
NumArtLayers == 4
TicksPerUnit == 2 * BoxScale

\* ------------------------------------------------------------ the scene
Drawings == {"D1", "D2", "D3", "D4", "D5"}
Groups == {"G1", "G2"}
Pegs == {"P1", "P2"}
Ports == {"M1"}
Composites == {"X1", "X2"}
Nodes == Drawings \cup Groups \cup Pegs \cup Ports \cup Composites
AllNodes == <<"D1", "D2", "D3", "D4", "D5", "G1", "G2", "P1", "P2", "M1", "X1", "X2">>
Top == "Top"
NoNode == ""

ParentPegMode == "Apply Embedded Pivot on Parent Peg"
DrawingLayerMode == "Apply Embedded Pivot on Drawing Layer"
NoEmbeddedMode == "Don't Use Embedded Pivot"
Modes == {ParentPegMode, DrawingLayerMode, NoEmbeddedMode}

Point2d(px, py) == [x |-> px, y |-> py]
Zero == Point2d(0, 0)

Box(a, b, c, d) == [kind |-> "box", x0 |-> a, y0 |-> b, x1 |-> c, y1 |-> d]
EmptyBox == [kind |-> "empty", x0 |-> 0, y0 |-> 0, x1 |-> 0, y1 |-> 0]
FalseBox == [kind |-> "false", x0 |-> 0, y0 |-> 0, x1 |-> 0, y1 |-> 0]

ArtLayers == 0 .. (NumArtLayers - 1)

VARIABLES
    sel,              \* selection.selectedNodes()
    subNodes,         \* group -> its sub-nodes, in order
    srcNode,          \* node -> node.srcNode(node, 0), NoNode when unconnected
    canAnimate,       \* drawing -> attribute canAnimate
    useDrawingPivot,  \* drawing -> attribute useDrawingPivot
    boxes,            \* drawing -> art layer -> Drawing.query.getBox at the current frame
    drawingPivot,     \* drawing -> pivot embedded in its artwork (field units)
    pivotAttr,        \* node -> its pivot.x / pivot.y attributes (field units)
    pc,               \* position of the script
    sNodes,           \* the collected drawings
    n,                \* index of the current drawing in sNodes
    pivotNode,        \* the node the pivot is set on
    trav,             \* locals of traverseChainUpToFindPeg
    corners,          \* the two opposing corners found so far
    center,           \* center_local_OGL
    log               \* what the run did to the host, in order

sceneVars == <<sel, subNodes, srcNode, canAnimate, useDrawingPivot, boxes, drawingPivot>>
vars == <<sel, subNodes, srcNode, canAnimate, useDrawingPivot, boxes, drawingPivot,
          pivotAttr, pc, sNodes, n, pivotNode, trav, corners, center, log>>

\* ------------------------------------------------------ host queries
type(nd) ==
    IF nd \in Drawings THEN "READ"
    ELSE IF nd \in Groups THEN "GROUP"
    ELSE IF nd \in Pegs THEN "PEG"
    ELSE IF nd \in Ports THEN "MULTIPORT_IN"
    ELSE "COMPOSITE"

Range(s) == {s[i] : i \in 1 .. Len(s)}

parentNode(nd) == CHOOSE g \in DOMAIN subNodes : nd \in Range(subNodes[g])

numberOfSubNodes(g) == Len(subNodes[g])

fromOGLX(v) == v * FieldX
fromOGLY(v) == v * FieldY
toOGLX(v) == v \div FieldX
toOGLY(v) == v \div FieldY

\* Nearest PEG above a node along srcNode(., 0), NoNode when the chain ends or
\* loops before one is met.  This is the host's notion of "parent peg"; the
\* script's own search is traverseChainUpToFindPeg below.
RECURSIVE PegAbove(_, _)
PegAbove(nd, fuel) ==
    IF nd = NoNode \/ fuel = 0 THEN NoNode
    ELSE IF type(nd) = "PEG" THEN nd
    ELSE PegAbove(srcNode[nd], fuel - 1)

NearestPeg(d) == PegAbove(srcNode[d], Cardinality(Nodes))

\* The embedded pivot the host resolves on a node: a drawing's own in drawing
\* layer mode, and on a peg that of the drawing below it in parent peg mode.
EmbeddedOn(nd) ==
    IF type(nd) = "READ"
    THEN IF useDrawingPivot[nd] = DrawingLayerMode THEN drawingPivot[nd] ELSE Zero
    ELSE LET below == {d \in Drawings : useDrawingPivot[d] = ParentPegMode /\ NearestPeg(d) = nd}
         IN IF below = {} THEN Zero ELSE drawingPivot[CHOOSE d \in below : TRUE]

getPivot(attrs, nd) ==
    Point2d(attrs[nd].x + EmbeddedOn(nd).x, attrs[nd].y + EmbeddedOn(nd).y)

\* ------------------------------------------------------ helper functions
getDrawingsShallow(nodeList) ==
    LET RECURSIVE Walk(_)
        Walk(i) ==
            IF i > Len(nodeList) THEN <<>>
            ELSE (IF type(nodeList[i]) = "READ" THEN <<nodeList[i]>>
                  ELSE IF type(nodeList[i]) = "GROUP"
                       THEN SelectSeq(subNodes[nodeList[i]], LAMBDA c : type(c) = "READ")
                       ELSE <<>>) \o Walk(i + 1)
    IN Walk(1)

RECURSIVE getDrawings(_)
getDrawings(nodeList) ==
    IF nodeList = <<>> THEN <<>>
    ELSE LET curNode == Head(nodeList)
             found == IF type(curNode) = "READ" THEN <<curNode>>
                      ELSE IF type(curNode) = "GROUP" THEN getDrawings(subNodes[curNode])
                      ELSE <<>>
         IN found \o getDrawings(Tail(nodeList))

\* parseFloat(x.toFixed(20)): on the tick grid every non-zero coordinate is at
\* least 1/3750 in size, so twenty decimals keep the seventeen significant
\* digits that give back the same double.
toFixed20(v) == v

\* midPointAt(p1, p2, t) with t = tNum / tDen
midPointAt(p1, p2, tNum, tDen) ==
    Point2d(toFixed20((p1.x * (tDen - tNum) + p2.x * tNum) \div tDen),
            toFixed20((p1.y * (tDen - tNum) + p2.y * tNum) \div tDen))

subtractBFromA(pA, pB) == Point2d(pA.x - pB.x, pA.y - pB.y)

\* box.x0 / 1875 and the like, on the tick grid
DivBoxScale(v) == v * (TicksPerUnit \div BoxScale)

NoCorners == [set |-> FALSE, btmL |-> Zero, topR |-> Zero]

\* The body of the art layer loop for one queried box.
AccumulateBoxOverwrite(c, box) ==
    IF box.kind # "box" THEN c
    ELSE [set |-> TRUE,
          btmL |-> Point2d(DivBoxScale(box.x0), DivBoxScale(box.y0)),
          topR |-> Point2d(DivBoxScale(box.x1), DivBoxScale(box.y1))]

Min(a, b) == IF a <= b THEN a ELSE b
Max(a, b) == IF a >= b THEN a ELSE b

AccumulateBox(c, box) ==
    IF box.kind = "false" \/ box.kind = "empty" THEN c
    ELSE IF ~c.set
    THEN [set |-> TRUE,
          btmL |-> Point2d(DivBoxScale(box.x0), DivBoxScale(box.y0)),
          topR |-> Point2d(DivBoxScale(box.x1), DivBoxScale(box.y1))]
    ELSE [set |-> TRUE,
          btmL |-> Point2d(Min(DivBoxScale(box.x0), c.btmL.x), Min(DivBoxScale(box.y0), c.btmL.y)),
          topR |-> Point2d(Max(DivBoxScale(box.x1), c.topR.x), Max(DivBoxScale(box.y1), c.topR.y))]

\* The art layer loop over the layers in the given order.
RECURSIVE CornersInOrder(_, _, _)
CornersInOrder(d, order, c) ==
    IF order = <<>> THEN c
    ELSE CornersInOrder(d, Tail(order), AccumulateBox(c, boxes[d][Head(order)]))

LayerOrder == [i \in 1 .. NumArtLayers |-> i - 1]

\* ------------------------------------------------------ the host's record
Event(e, i, nd, a, v) == [ev |-> e, idx |-> i, node |-> nd, attr |-> a, val |-> v]

curDrawing == sNodes[n]

NoTrav == [numSubNodes |-> 0, src |-> NoNode, nd |-> 0]

\* ------------------------------------------------------ the conditions
NoDrawingsRawSelection(list) == Len(sel) = 0

NoDrawings(list) == Len(list) = 0

NeedsParentPegOnlyFlag(boolAnimatable, embeddedPivotOption) == ~boolAnimatable

NeedsParentPeg(boolAnimatable, embeddedPivotOption) ==
    ~boolAnimatable \/ (boolAnimatable /\ embeddedPivotOption = ParentPegMode)

LoopContinuesOffByOne(nd, numSubNodes) == nd <= numSubNodes

LoopContinues(nd, numSubNodes) == nd < numSubNodes

InversePivot(cur, target, embeddedPivotOption) ==
    \/ cur # target /\ embeddedPivotOption = ParentPegMode
    \/ cur = target /\ embeddedPivotOption = DrawingLayerMode

\* node.setTextAttr(pivotNode, "pivot.x" / "pivot.y", 1, value) on the attributes
SetPivot(attrs, nd, p) == [attrs EXCEPT ![nd] = p]

\* the attributes getPivot reads after the two resets of lines 131-132
ResetSkipped(attrs, nd) == attrs

ResetPivot(attrs, nd) == SetPivot(attrs, nd, Zero)

\* "continue": the position and the index after a skipped drawing
SkipReturns == "done"

SkipGoesTo == "loop"

AfterSkipBreak(i, len) == len + 1

AfterSkip(i, len) == i + 1

\* the node the two resets are written to
ResetNodeDrawing(cur, target) == cur

ResetNode(cur, target) == target

\* traverseChainUpToFindPeg as a function of the node it is called on
RECURSIVE ChainSearch(_, _, _)
ChainSearch(src, nd, numSubNodes) ==
    IF ~LoopContinues(nd, numSubNodes) THEN NoNode
    ELSE IF src = NoNode THEN NoNode
    ELSE IF type(src) = "PEG" THEN src
    ELSE ChainSearch(srcNode[src], nd + 1, numSubNodes)

traverseChainUpToFindPeg(lastNode) ==
    ChainSearch(srcNode[lastNode], 0, numberOfSubNodes(parentNode(lastNode)))

\* lines 58-83 as a function of the drawing: the node the pivot goes on,
\* NoNode when the drawing is skipped for want of a peg
PivotNodeOf(d) ==
    IF ~NeedsParentPeg(canAnimate[d], useDrawingPivot[d]) THEN d
    ELSE IF srcNode[d] = NoNode THEN NoNode
    ELSE IF type(srcNode[d]) = "PEG" THEN srcNode[d]
    ELSE traverseChainUpToFindPeg(srcNode[d])

\* ------------------------------------------------------ initial scenes
Injective(f) == \A i, j \in DOMAIN f : i # j => f[i] # f[j]

SeqsNoDup(S, maxLen) ==
    UNION {{f \in [1 .. k -> S] : Injective(f)} : k \in 0 .. maxLen}

TopSeq(g1, g2) == SelectSeq(AllNodes, LAMBDA x : x \notin (Range(g1) \cup Range(g2)))

SubNodesOf(g1, g2) ==
    [g \in Groups \cup {Top} |->
        IF g = "G1" THEN g1 ELSE IF g = "G2" THEN g2 ELSE TopSeq(g1, g2)]

DefSrc == [nd \in Nodes |-> IF nd = "X1" THEN "P1" ELSE NoNode]
DefCan == [d \in Drawings |-> TRUE]
DefMode == [d \in Drawings |-> NoEmbeddedMode]
DefLayers == [a \in ArtLayers |-> IF a = 1 THEN Box(-2, -4, 6, 8) ELSE EmptyBox]
DefBoxes == [d \in Drawings |-> DefLayers]
FieldPoint(a, b) == Point2d(fromOGLX(a * TicksPerUnit), fromOGLY(b * TicksPerUnit))
DefDrawingPivot == [d \in Drawings |-> FieldPoint(1, -1)]
DefPivotAttr == [nd \in Nodes |-> Zero]

ScriptInit ==
    /\ pc = "start"
    /\ sNodes = <<>>
    /\ n = 0
    /\ pivotNode = NoNode
    /\ trav = NoTrav
    /\ corners = NoCorners
    /\ center = Zero
    /\ log = <<>>

\* Group trees and selections; every drawing is animatable with one art layer.
InitTree ==
    /\ \E g1 \in SeqsNoDup({"D1", "D2", "G2", "X1"}, MaxSub),
          g2 \in SeqsNoDup({"D3", "P1"}, 2) :
            subNodes = SubNodesOf(g1, g2)
    /\ sel \in SeqsNoDup({"D3", "G1", "G2", "X1"}, MaxSel)
    /\ srcNode = DefSrc
    /\ canAnimate = DefCan
    /\ useDrawingPivot = DefMode
    /\ boxes = DefBoxes
    /\ drawingPivot = DefDrawingPivot
    /\ pivotAttr = DefPivotAttr

\* Source chains above one drawing, with and without pegs, loops included.
InitChain ==
    /\ sel = <<"D1">>
    /\ \E g1 \in {<<>>, <<"M1", "D1">>, <<"M1", "D1", "X1">>} :
            subNodes = SubNodesOf(g1, <<>>)
    /\ \E sd \in {NoNode, "M1", "X1", "P1"}, sm \in {NoNode, "X1", "X2", "P1"},
          s1 \in {NoNode, "X2", "P1", "M1"}, s2 \in {NoNode, "P1", "P2", "X1"} :
            srcNode = [nd \in Nodes |->
                IF nd = "D1" THEN sd ELSE IF nd = "M1" THEN sm
                ELSE IF nd = "X1" THEN s1 ELSE IF nd = "X2" THEN s2 ELSE NoNode]
    /\ \E b \in BOOLEAN : canAnimate = [DefCan EXCEPT !["D1"] = b]
    /\ \E m \in Modes : useDrawingPivot = [DefMode EXCEPT !["D1"] = m]
    /\ boxes = DefBoxes
    /\ drawingPivot = DefDrawingPivot
    /\ pivotAttr = DefPivotAttr

\* Every filling of the four art layers of one drawing.
BoxVals ==
    {EmptyBox, FalseBox} \cup
    {Box(-a, -b, 2 * b, a + 1) : a \in 0 .. MaxCoord, b \in 0 .. 1}

InitBox ==
    /\ sel = <<"D1">>
    /\ subNodes = SubNodesOf(<<>>, <<>>)
    /\ srcNode = DefSrc
    /\ canAnimate = DefCan
    /\ useDrawingPivot = DefMode
    /\ \E layers \in [ArtLayers -> BoxVals] : boxes = [DefBoxes EXCEPT !["D1"] = layers]
    /\ drawingPivot = DefDrawingPivot
    /\ pivotAttr = DefPivotAttr

\* Flags, embedded pivots and earlier pivot values of one drawing and its peg.
PivotVals == {FieldPoint(a, -b) : a \in 0 .. MaxPivot, b \in 0 .. MaxPivot}

InitPivot ==
    /\ sel = <<"D1">>
    /\ subNodes = SubNodesOf(<<>>, <<>>)
    /\ \E sd \in {NoNode, "P1", "X1"} : srcNode = [DefSrc EXCEPT !["D1"] = sd]
    /\ \E b \in BOOLEAN : canAnimate = [DefCan EXCEPT !["D1"] = b]
    /\ \E m \in Modes : useDrawingPivot = [DefMode EXCEPT !["D1"] = m]
    /\ boxes = DefBoxes
    /\ \E e \in PivotVals : drawingPivot = [DefDrawingPivot EXCEPT !["D1"] = e]
    /\ \E prior \in PivotVals :
            pivotAttr = [DefPivotAttr EXCEPT !["D1"] = prior, !["P1"] = prior]

\* Batches of up to three drawings, each one fine or failing in one of the two ways.
Profiles == {"self", "peg", "noPeg", "empty"}
PegOf(d) == IF d = "D1" THEN "P1" ELSE IF d = "D2" THEN "X1" ELSE "P2"

InitBatch ==
    /\ sel \in SeqsNoDup({"D1", "D2", "D3"}, 3)
    /\ subNodes = SubNodesOf(<<>>, <<>>)
    /\ \E prof \in [{"D1", "D2", "D3"} -> Profiles] :
        /\ srcNode = [nd \in Nodes |->
                IF nd \in DOMAIN prof /\ prof[nd] = "peg" THEN PegOf(nd) ELSE DefSrc[nd]]
        /\ canAnimate = [d \in Drawings |->
                IF d \in DOMAIN prof THEN prof[d] \in {"self", "empty"} ELSE TRUE]
        /\ useDrawingPivot = [d \in Drawings |->
                IF d \in DOMAIN prof /\ prof[d] = "self" THEN DrawingLayerMode ELSE NoEmbeddedMode]
        /\ boxes = [d \in Drawings |->
                IF d \in DOMAIN prof /\ prof[d] = "empty"
                THEN [a \in ArtLayers |-> IF a = 0 THEN FalseBox ELSE EmptyBox]
                ELSE DefLayers]
    /\ drawingPivot = DefDrawingPivot
    /\ pivotAttr = DefPivotAttr

\* A group of three drawings and a nested group of two more, selected.
InitNestedGroups ==
    /\ sel = <<"G1">>
    /\ subNodes = [g \in Groups \cup {Top} |->
            IF g = "G1" THEN <<"D1", "D2", "G2", "D3">>
            ELSE IF g = "G2" THEN <<"D4", "D5">>
            ELSE <<"G1", "P1", "P2", "M1", "X1", "X2">>]
    /\ srcNode = DefSrc
    /\ canAnimate = DefCan
    /\ useDrawingPivot = DefMode
    /\ boxes = DefBoxes
    /\ drawingPivot = DefDrawingPivot
    /\ pivotAttr = DefPivotAttr

\* An animatable drawing in drawing layer mode with embedded pivot (5, 3) and
\* artwork centred at (10, 10), in OGL units.
InitEmbeddedExample ==
    /\ sel = <<"D1">>
    /\ subNodes = SubNodesOf(<<>>, <<>>)
    /\ srcNode = DefSrc
    /\ canAnimate = DefCan
    /\ useDrawingPivot = [DefMode EXCEPT !["D1"] = DrawingLayerMode]
    /\ boxes = [DefBoxes EXCEPT !["D1"] =
            [a \in ArtLayers |-> IF a = 0 THEN Box(0, 0, 20 * BoxScale, 20 * BoxScale) ELSE EmptyBox]]
    /\ drawingPivot = [DefDrawingPivot EXCEPT !["D1"] = FieldPoint(5, 3)]
    /\ \E pd \in PivotVals : pivotAttr = [DefPivotAttr EXCEPT !["D1"] = pd]

Init ==
    /\ ScriptInit
    /\ \/ InitTree
       \/ InitChain
       \/ InitBox
       \/ InitPivot
       \/ InitBatch
       \/ InitNestedGroups
       \/ InitEmbeddedExample

\* ------------------------------------------------------ the run
Trace(what) == Event("trace", n, curDrawing, what, 0)

\* "continue" of the main loop after a trace line
Skip(what) ==
    /\ log' = Append(log, Trace(what))
    /\ pc' = SkipGoesTo
    /\ n' = AfterSkip(n, Len(sNodes))
    /\ pivotNode' = NoNode
    /\ trav' = NoTrav
    /\ corners' = NoCorners
    /\ center' = Zero
    /\ UNCHANGED <<sceneVars, pivotAttr, sNodes>>

\* lines 44-50: nothing to do, tell the user
NoDrawingSelected ==
    /\ pc = "start"
    /\ NoDrawings(getDrawings(sel))
    /\ sNodes' = getDrawings(sel)
    /\ log' = Append(log, Event("dialog", 0, NoNode, "", 0))
    /\ pc' = "done"
    /\ UNCHANGED <<sceneVars, pivotAttr, n, pivotNode, trav, corners, center>>

\* lines 44-52: the drawings are collected and the undo bracket is opened
BeginUndoRedoAccum ==
    /\ pc = "start"
    /\ ~NoDrawings(getDrawings(sel))
    /\ sNodes' = getDrawings(sel)
    /\ log' = Append(log, Event("begin", 0, NoNode, "", 0))
    /\ n' = 1
    /\ pc' = "loop"
    /\ UNCHANGED <<sceneVars, pivotAttr, pivotNode, trav, corners, center>>

\* line 149: the loop is over
EndUndoRedoAccum ==
    /\ pc = "loop"
    /\ n > Len(sNodes)
    /\ log' = Append(log, Event("end", 0, NoNode, "", 0))
    /\ pc' = "done"
    /\ UNCHANGED <<sceneVars, pivotAttr, sNodes, n, pivotNode, trav, corners, center>>

AtDrawing == pc = "loop" /\ n <= Len(sNodes)

boolAnimatable == canAnimate[curDrawing]
embeddedPivotOption == useDrawingPivot[curDrawing]

\* lines 57-66: the pivot goes on the drawing itself
ResolveOnDrawing ==
    /\ AtDrawing
    /\ ~NeedsParentPeg(boolAnimatable, embeddedPivotOption)
    /\ pivotNode' = curDrawing
    /\ pc' = "box"
    /\ UNCHANGED <<sceneVars, pivotAttr, sNodes, n, trav, corners, center, log>>

\* lines 68-73: nothing is connected above the drawing
ResolveNoSource ==
    /\ AtDrawing
    /\ NeedsParentPeg(boolAnimatable, embeddedPivotOption)
    /\ srcNode[curDrawing] = NoNode
    /\ Skip("noPeg")

\* lines 68, 74: the node right above the drawing is a peg
ResolveParentPeg ==
    /\ AtDrawing
    /\ NeedsParentPeg(boolAnimatable, embeddedPivotOption)
    /\ srcNode[curDrawing] # NoNode
    /\ type(srcNode[curDrawing]) = "PEG"
    /\ pivotNode' = srcNode[curDrawing]
    /\ pc' = "box"
    /\ UNCHANGED <<sceneVars, pivotAttr, sNodes, n, trav, corners, center, log>>

\* lines 74-76, 174-175: traverseChainUpToFindPeg is entered
ResolveTraverse ==
    /\ AtDrawing
    /\ NeedsParentPeg(boolAnimatable, embeddedPivotOption)
    /\ srcNode[curDrawing] # NoNode
    /\ type(srcNode[curDrawing]) # "PEG"
    /\ pivotNode' = srcNode[curDrawing]
    /\ trav' = [numSubNodes |-> numberOfSubNodes(parentNode(srcNode[curDrawing])),
                src |-> srcNode[srcNode[curDrawing]],
                nd |-> 0]
    /\ pc' = "traverse"
    /\ UNCHANGED <<sceneVars, pivotAttr, sNodes, n, corners, center, log>>

\* lines 176-184: one turn of the loop that goes on to the next source
TraverseNext ==
    /\ pc = "traverse"
    /\ LoopContinues(trav.nd, trav.numSubNodes)
    /\ trav.src # NoNode
    /\ type(trav.src) # "PEG"
    /\ trav' = [trav EXCEPT !.src = srcNode[trav.src], !.nd = trav.nd + 1]
    /\ UNCHANGED <<sceneVars, pivotAttr, pc, sNodes, n, pivotNode, corners, center, log>>

\* lines 181-182: a peg is met and returned
TraverseFound ==
    /\ pc = "traverse"
    /\ LoopContinues(trav.nd, trav.numSubNodes)
    /\ trav.src # NoNode
    /\ type(trav.src) = "PEG"
    /\ pivotNode' = trav.src
    /\ trav' = NoTrav
    /\ pc' = "box"
    /\ UNCHANGED <<sceneVars, pivotAttr, sNodes, n, corners, center, log>>

\* lines 178-179, 77-81: the chain ends, "" is returned
TraverseChainEnded ==
    /\ pc = "traverse"
    /\ LoopContinues(trav.nd, trav.numSubNodes)
    /\ trav.src = NoNode
    /\ Skip("noPeg")

\* lines 186, 77-81: the loop runs out, "" is returned
TraverseExhausted ==
    /\ pc = "traverse"
    /\ ~LoopContinues(trav.nd, trav.numSubNodes)
    /\ Skip("noPeg")

\* lines 88-116: no art layer has a box at the current frame
DrawingIsEmpty ==
    /\ pc = "box"
    /\ ~CornersInOrder(curDrawing, LayerOrder, NoCorners).set
    /\ Skip("empty")

\* lines 88-122: the corners and their mid point
ComputeCenter ==
    /\ pc = "box"
    /\ CornersInOrder(curDrawing, LayerOrder, NoCorners).set
    /\ corners' = CornersInOrder(curDrawing, LayerOrder, NoCorners)
    /\ center' = midPointAt(corners'.btmL, corners'.topR, 1, 2)
    /\ pc' = "inverse"
    /\ UNCHANGED <<sceneVars, pivotAttr, sNodes, n, pivotNode, trav, log>>

\* lines 128-141: the drawing pivot is taken off the centre
InverseDrawingPivot ==
    /\ pc = "inverse"
    /\ InversePivot(curDrawing, pivotNode, embeddedPivotOption)
    /\ LET rn == ResetNode(curDrawing, pivotNode)
           drawPivot == getPivot(ResetPivot(pivotAttr, rn), pivotNode)
       IN /\ log' = log \o <<Event("write", n, rn, "pivot.x", 0),
                             Event("write", n, rn, "pivot.y", 0)>>
          /\ pivotAttr' = ResetPivot(pivotAttr, rn)
          /\ center' = IF drawPivot.x # 0 \/ drawPivot.y # 0
                       THEN subtractBFromA(center, Point2d(toOGLX(drawPivot.x), toOGLY(drawPivot.y)))
                       ELSE center
    /\ pc' = "write"
    /\ UNCHANGED <<sceneVars, sNodes, n, pivotNode, trav, corners>>

\* line 128: the centre is used as it is
KeepCenter ==
    /\ pc = "inverse"
    /\ ~InversePivot(curDrawing, pivotNode, embeddedPivotOption)
    /\ pc' = "write"
    /\ UNCHANGED <<sceneVars, pivotAttr, sNodes, n, pivotNode, trav, corners, center, log>>

\* lines 145-146: the centre becomes the layer pivot
SetLayerPivot ==
    /\ pc = "write"
    /\ log' = log \o <<Event("write", n, pivotNode, "pivot.x", fromOGLX(center.x)),
                       Event("write", n, pivotNode, "pivot.y", fromOGLY(center.y))>>
    /\ pivotAttr' = SetPivot(pivotAttr, pivotNode, Point2d(fromOGLX(center.x), fromOGLY(center.y)))
    /\ n' = n + 1
    /\ pc' = "loop"
    /\ pivotNode' = NoNode
    /\ corners' = NoCorners
    /\ center' = Zero
    /\ UNCHANGED <<sceneVars, sNodes, trav>>

Next ==
    \/ NoDrawingSelected
    \/ BeginUndoRedoAccum
    \/ EndUndoRedoAccum
    \/ ResolveOnDrawing
    \/ ResolveNoSource
    \/ ResolveParentPeg
    \/ ResolveTraverse
    \/ TraverseNext
    \/ TraverseFound
    \/ TraverseChainEnded
    \/ TraverseExhausted
    \/ DrawingIsEmpty
    \/ ComputeCenter
    \/ InverseDrawingPivot
    \/ KeepCenter
    \/ SetLayerPivot

Spec == Init /\ [][Next]_vars

\* The script runs to completion inside one invocation.
LiveSpec == Spec /\ WF_vars(Next)

\* ------------------------------------------------------ reading the record
Indices == 1 .. Len(sNodes)

\* the drawings the loop is through with
Processed == {i \in Indices : i < n \/ pc = "done"}

WritesOf(i) == SelectSeq(log, LAMBDA e : e.ev = "write" /\ e.idx = i)
TracesOf(i) == SelectSeq(log, LAMBDA e : e.ev = "trace" /\ e.idx = i)
Count(kind) == Len(SelectSeq(log, LAMBDA e : e.ev = kind))

HasBox(d) == \E a \in ArtLayers : boxes[d][a].kind = "box"

TargetIsDrawing(d) == canAnimate[d] /\ useDrawingPivot[d] # ParentPegMode

Resolved == pc \in {"box", "inverse", "write"}

\* C1: all pivot writes made while processing a drawing, the resets and the
\* final pair alike, go to one node, the resolved pivot target, and there is
\* none unless one of the drawing's four art layers has a box at the frame.
C1_WritesOnOneTarget ==
    \A i \in Indices :
        LET W == WritesOf(i)
        IN /\ W # <<>> => HasBox(sNodes[i])
           /\ \A j, k \in 1 .. Len(W) : W[j].node = W[k].node
           /\ \A j \in 1 .. Len(W) : W[j].attr \in {"pivot.x", "pivot.y"}
           /\ (i = n /\ Resolved) => \A j \in 1 .. Len(W) : W[j].node = pivotNode

C1_Witness ==
    \E i \in Indices :
        /\ Len(WritesOf(i)) = 4
        /\ WritesOf(i)[1].node \in Pegs
        /\ WritesOf(i)[4].node \in Pegs

\* C2: the pivot target is the drawing itself exactly when canAnimate is true
\* and the mode is not "Apply Embedded Pivot on Parent Peg"; in every other
\* case no pivot attribute of the drawing itself is ever written.
C2_TargetResolution ==
    /\ Resolved => (pivotNode = curDrawing <=> TargetIsDrawing(curDrawing))
    /\ \A i \in Indices :
        /\ ~TargetIsDrawing(sNodes[i]) =>
                \A k \in 1 .. Len(log) : log[k].ev = "write" => log[k].node # sNodes[i]
        /\ TargetIsDrawing(sNodes[i]) =>
                \A k \in 1 .. Len(WritesOf(i)) : WritesOf(i)[k].node = sNodes[i]

C2_Witness ==
    /\ pc = "done"
    /\ \E i, j \in Indices :
        /\ TargetIsDrawing(sNodes[i]) /\ WritesOf(i) # <<>>
        /\ ~TargetIsDrawing(sNodes[j]) /\ WritesOf(j) # <<>>

\* C4: when the collector yields no drawing the run shows exactly one dialog,
\* writes no attribute and calls neither beginUndoRedoAccum nor endUndoRedoAccum.
C4_NothingCollected ==
    Len(getDrawings(sel)) = 0 =>
        /\ pc = "start" => log = <<>>
        /\ pc # "start" => pc = "done" /\ log = <<Event("dialog", 0, NoNode, "", 0)>>

C4_Witness ==
    /\ pc = "done"
    /\ sel # <<>>
    /\ \E k \in 1 .. Len(sel) : type(sel[k]) = "GROUP"
    /\ Count("dialog") = 1
    /\ Len(log) = 1

\* C9: in a run that collects a drawing beginUndoRedoAccum is called once and
\* before every attribute write, endUndoRedoAccum once and after every write,
\* whatever mix of drawings is processed or skipped.
C9_OneUndoBracket ==
    (pc # "start" /\ sNodes # <<>>) =>
        /\ Count("begin") = 1
        /\ log[1].ev = "begin"
        /\ Count("dialog") = 0
        /\ pc # "done" => Count("end") = 0
        /\ pc = "done" =>
            /\ Count("end") = 1
            /\ log[Len(log)].ev = "end"
            /\ \A i \in Indices : WritesOf(i) # <<>> \/ TracesOf(i) # <<>>

C9_Witness ==
    /\ pc = "done"
    /\ Len(sNodes) >= 2
    /\ Count("write") > 0
    /\ Count("trace") > 0
    /\ log[1].ev = "begin"
    /\ log[Len(log)].ev = "end"

\* C3: a drawing with canAnimate off, a box at the frame and a PEG somewhere
\* on its source chain has its pivot written on the nearest such PEG, however
\* long the chain and however few nodes its first source's parent holds.
C3_NearestPegWritten ==
    \A i \in Processed :
        (~canAnimate[sNodes[i]] /\ HasBox(sNodes[i]) /\ NearestPeg(sNodes[i]) # NoNode) =>
            /\ WritesOf(i) # <<>>
            /\ \A k \in 1 .. Len(WritesOf(i)) : WritesOf(i)[k].node = NearestPeg(sNodes[i])

\* ------------------------------------------------------ one drawing on its own
Strip(e) == <<e.ev, e.node, e.attr, e.val>>

EventsOf(i) ==
    LET E == SelectSeq(log, LAMBDA e : e.idx = i)
    IN [k \in 1 .. Len(E) |-> Strip(E[k])]

Fails(d) == PivotNodeOf(d) = NoNode \/ ~HasBox(d)

\* what the loop body does for drawing d when nothing else is in the batch
Alone(d) ==
    LET t == PivotNodeOf(d)
        c0 == midPointAt(CornersInOrder(d, LayerOrder, NoCorners).btmL,
                         CornersInOrder(d, LayerOrder, NoCorners).topR, 1, 2)
        inv == InversePivot(d, t, useDrawingPivot[d])
        e == EmbeddedOn(t)
        c == IF inv /\ e # Zero
             THEN subtractBFromA(c0, Point2d(toOGLX(e.x), toOGLY(e.y)))
             ELSE c0
    IN IF t = NoNode THEN << <<"trace", d, "noPeg", 0>> >>
       ELSE IF ~HasBox(d) THEN << <<"trace", d, "empty", 0>> >>
       ELSE (IF inv THEN << <<"write", t, "pivot.x", 0>>, <<"write", t, "pivot.y", 0>> >>
             ELSE <<>>)
            \o << <<"write", t, "pivot.x", fromOGLX(c.x)>>,
                  <<"write", t, "pivot.y", fromOGLY(c.y)>> >>

\* C5: a drawing that fails target resolution or has no box in any art layer
\* causes no attribute write and exactly one trace line, and every drawing of
\* the batch is handled as it would be alone, the ones after a failed one too.
C5_FailureIsLocal ==
    /\ \A i \in Processed :
        /\ EventsOf(i) = Alone(sNodes[i])
        /\ Fails(sNodes[i]) => WritesOf(i) = <<>> /\ Len(TracesOf(i)) = 1
    /\ \A i \in Indices \ Processed : i > n => EventsOf(i) = <<>>

C5_Witness ==
    /\ pc = "done"
    /\ \E i, j, k \in Indices :
        /\ i < j /\ j < k
        /\ PivotNodeOf(sNodes[i]) = NoNode
        /\ PivotNodeOf(sNodes[j]) # NoNode /\ ~HasBox(sNodes[j])
        /\ ~Fails(sNodes[k])
        /\ Len(TracesOf(i)) = 1 /\ Len(TracesOf(j)) = 1
        /\ Len(WritesOf(k)) >= 2

\* ------------------------------------------------------ the flattening, by paths
\* A path <<i1, ..., ik>> names the i1-th selected node, its i2-th sub-node, and
\* so on; the drawings in depth-first order are the READ nodes at the paths
\* that lead through groups only, in the lexicographic order of the paths.
MaxDepth == Cardinality(Groups) + 1

Width ==
    LET lens == {Len(sel)} \cup {Len(subNodes[g]) : g \in Groups}
    IN CHOOSE w \in lens : \A v \in lens : v <= w

Paths == UNION {[1 .. k -> 1 .. Width] : k \in 1 .. MaxDepth}

RECURSIVE NodeAt(_)
NodeAt(p) ==
    LET list == IF Len(p) = 1 THEN sel
                ELSE LET above == NodeAt(SubSeq(p, 1, Len(p) - 1))
                     IN IF above \in Groups THEN subNodes[above] ELSE <<>>
    IN IF p[Len(p)] <= Len(list) THEN list[p[Len(p)]] ELSE NoNode

LeafPaths == {p \in Paths : NodeAt(p) \in Drawings}

LexLess(p, q) ==
    \E k \in 1 .. Min(Len(p), Len(q)) :
        /\ p[k] < q[k]
        /\ \A j \in 1 .. (k - 1) : p[j] = q[j]

DepthFirst ==
    [i \in 1 .. Cardinality(LeafPaths) |->
        NodeAt(CHOOSE p \in LeafPaths :
                    Cardinality({q \in LeafPaths : LexLess(q, p)}) = i - 1)]

\* C6: getDrawings returns the depth-first, order-preserving flattening of the
\* list: READ nodes in place, GROUP nodes replaced by the flattening of their
\* sub-nodes, every other node dropped; three drawings and a nested group of
\* two more give five entries in depth-first order.
C6_DepthFirstFlattening ==
    /\ pc = "start" => getDrawings(sel) = DepthFirst
    /\ pc # "start" => sNodes = getDrawings(sel)
    /\ (sel = <<"G1">> /\ subNodes["G1"] = <<"D1", "D2", "G2", "D3">>
            /\ subNodes["G2"] = <<"D4", "D5">>)
        => getDrawings(sel) = <<"D1", "D2", "D4", "D5", "D3">>

C6_Witness ==
    /\ pc # "start"
    /\ sel = <<"G1">>
    /\ subNodes["G1"] = <<"D1", "D2", "G2", "D3">>
    /\ sNodes = <<"D1", "D2", "D4", "D5", "D3">>

\* ------------------------------------------------------ the centre, by sets
LayerBoxes(d) == {boxes[d][a] : a \in {l \in ArtLayers : boxes[d][l].kind = "box"}}

Least(S) == CHOOSE v \in S : \A w \in S : v <= w
Greatest(S) == CHOOSE v \in S : \A w \in S : v >= w
InTicks(v) == (v * TicksPerUnit) \div BoxScale

\* mid point of (minimum of the bottom-left corners, maximum of the top-right ones)
RawCenter(d) ==
    Point2d((Least({InTicks(b.x0) : b \in LayerBoxes(d)})
                + Greatest({InTicks(b.x1) : b \in LayerBoxes(d)})) \div 2,
            (Least({InTicks(b.y0) : b \in LayerBoxes(d)})
                + Greatest({InTicks(b.y1) : b \in LayerBoxes(d)})) \div 2)

LayerOrders == {f \in [1 .. NumArtLayers -> ArtLayers] : Injective(f)}

CenterInOrder(d, order) ==
    midPointAt(CornersInOrder(d, order, NoCorners).btmL,
               CornersInOrder(d, order, NoCorners).topR, 1, 2)

\* C7: the computed centre is the mid point of the componentwise minimum of the
\* bottom-left corners and maximum of the top-right corners of the non-empty
\* art layers, whatever the order the layers are visited in and whichever
\* layers are empty.
C7_CenterOfUnion ==
    pc = "inverse" =>
        /\ center = RawCenter(curDrawing)
        /\ \A order \in LayerOrders : CenterInOrder(curDrawing, order) = center

C7_Witness ==
    /\ pc = "inverse"
    /\ Cardinality(LayerBoxes(curDrawing)) >= 3
    /\ \E a \in ArtLayers : boxes[curDrawing][a].kind # "box"
    /\ boxes[curDrawing][0].kind = "box"
    /\ \E a \in ArtLayers : boxes[curDrawing][a].kind = "box"
            /\ boxes[curDrawing][a].x0 < boxes[curDrawing][0].x0
    /\ \E a \in ArtLayers : boxes[curDrawing][a].kind = "box"
            /\ boxes[curDrawing][a].y1 > boxes[curDrawing][0].y1
    /\ center # Zero

\* ------------------------------------------------------ the written pivot
Compensated(d, t) ==
    \/ t # d /\ useDrawingPivot[d] = ParentPegMode
    \/ t = d /\ useDrawingPivot[d] = DrawingLayerMode

\* the pivot in OGL ticks: the raw centre, less the drawing's embedded pivot
\* where the compensation applies
PivotFor(d, t) ==
    IF Compensated(d, t)
    THEN Point2d(RawCenter(d).x - toOGLX(drawingPivot[d].x),
                 RawCenter(d).y - toOGLY(drawingPivot[d].y))
    ELSE RawCenter(d)

EmbeddedExample ==
    /\ sel = <<"D1">>
    /\ canAnimate["D1"]
    /\ useDrawingPivot["D1"] = DrawingLayerMode
    /\ drawingPivot["D1"] = FieldPoint(5, 3)
    /\ HasBox("D1")
    /\ RawCenter("D1") = Point2d(10 * TicksPerUnit, 10 * TicksPerUnit)

\* C8: the pivot written on the target is the raw centre less the drawing's
\* embedded pivot when (target is not the drawing and the mode is parent peg)
\* or (target is the drawing and the mode is drawing layer), and the raw
\* centre otherwise, whatever pivot the target had before; embedded pivot
\* (5, 3) and raw centre (10, 10) give (5, 7), written on the drawing.
C8_InverseCompensation ==
    \A i \in Processed :
        LET W == WritesOf(i)
            d == sNodes[i]
            t == W[Len(W)].node
        IN W # <<>> =>
            /\ Len(W) >= 2
            /\ W[Len(W) - 1] = Event("write", i, t, "pivot.x", fromOGLX(PivotFor(d, t).x))
            /\ W[Len(W)] = Event("write", i, t, "pivot.y", fromOGLY(PivotFor(d, t).y))
            /\ pivotAttr[t] = Point2d(fromOGLX(PivotFor(d, t).x), fromOGLY(PivotFor(d, t).y))
            /\ EmbeddedExample => t = "D1" /\ pivotAttr["D1"] = FieldPoint(5, 7)

C8_Witness ==
    /\ pc = "done"
    /\ EmbeddedExample
    /\ Len(WritesOf(1)) = 4
    /\ pivotAttr["D1"] = FieldPoint(5, 7)

\* ------------------------------------------------------ termination
ChainLoops(d) ==
    \E x \in Nodes : x # NoNode /\ srcNode[d] = x /\ type(x) # "PEG"
        /\ \E y \in Nodes : srcNode[x] = y /\ type(y) # "PEG" /\ srcNode[y] = x

TraverseBounded ==
    pc = "traverse" =>
        /\ trav.nd <= trav.numSubNodes
        /\ trav.numSubNodes = numberOfSubNodes(parentNode(srcNode[curDrawing]))

ReturnsPegOrNothing ==
    (Resolved /\ pivotNode # curDrawing) => type(pivotNode) = "PEG"

Finished ==
    /\ pc = "done"
    /\ log # <<>>
    /\ log[Len(log)].ev \in {"end", "dialog"}

\* C10: every run terminates, on chains that loop or never reach a PEG too:
\* traverseChainUpToFindPeg makes at most numberOfSubNodes(parentNode(lastNode))
\* turns and returns a PEG or the empty string, and the main loop reaches
\* endUndoRedoAccum.
C10_Terminates ==
    /\ [](TraverseBounded /\ ReturnsPegOrNothing)
    /\ <>Finished

C10_Witness ==
    /\ pc = "done"
    /\ sNodes = <<"D1">>
    /\ ChainLoops("D1")
    /\ ~canAnimate["D1"]
    /\ Count("trace") = 1
    /\ log[Len(log)].ev = "end"

====
